---- MODULE Spec2Model ----
(***************************************************************************)
(* Model of injection/provide.py: the Provide marker, its metaclass        *)
(* ClassGetItemMeta (Provide[p]), and call sites that construct markers    *)
(* and invoke them concurrently.                                           *)
(*                                                                         *)
(* Python values are records [kind, id]; object identity is the pair.      *)
(* The heap holds the instance dictionaries of the Provide objects.        *)
(***************************************************************************)
EXTENDS Integers, Sequences, FiniteSets, TLC

\* ---- bounds ----
MaxMarkers == 2      \* constructions explored
NumProviders == 2    \* distinct provider instances
NumSites == 2        \* concurrent call sites

\* ---- values ----
None == [kind |-> "none", id |-> 0]
Unset == [kind |-> "unset", id |-> 0]
ProvideClass == [kind |-> "class", id |-> 0]
MarkerRef(i) == [kind |-> "marker", id |-> i]
ProviderRef(i) == [kind |-> "provider", id |-> i]
Providers == {ProviderRef(i) : i \in 1..NumProviders}
\* values without a produce capability that a caller may still pass
InvalidProviders == {[kind |-> "object", id |-> 0]}
Items == Providers \cup InvalidProviders
HasProduce(v) == v.kind = "provider"
Sites == 1..NumSites

VARIABLES heap, produced, log, last, pc, self, ret, again

vars == <<heap, produced, log, last, pc, self, ret, again>>

\* the state a method of this component can read or write
State == [heap |-> heap, produced |-> produced]

\* ---- the code ----

\* object.__new__(cls): a fresh instance with an empty __dict__
New(st) == [st EXCEPT !.heap = Append(@, [provider |-> Unset])]

\* mutant: the attribute is stored on the class, shared by all instances
Provide_init_ClassAttr(st, slf, provider) ==
  [st |-> [st EXCEPT !.heap = [k \in DOMAIN @ |-> [provider |-> provider]]],
   raised |-> FALSE]

\* mutant: providers without a produce capability are rejected
Provide_init_Validate(st, slf, provider) ==
  IF HasProduce(provider)
  THEN [st |-> [st EXCEPT !.heap[slf.id].provider = provider], raised |-> FALSE]
  ELSE [st |-> st, raised |-> TRUE]

\* Provide.__init__(self, provider): self.provider = provider
Provide_init(st, slf, provider) ==
  [st |-> [st EXCEPT !.heap[slf.id].provider = provider], raised |-> FALSE]

\* mutant: one instance per process, re-initialised on every construction
TypeCall_Singleton(st, cls, item) ==
  LET st0 == IF Len(st.heap) = 0 THEN New(st) ELSE st
      r == Provide_init(st0, MarkerRef(1), item)
  IN [ret |-> MarkerRef(1), st |-> r.st, raised |-> FALSE]

\* mutant: a registry keyed by provider returns the marker made earlier
TypeCall_Cached(st, cls, item) ==
  LET hit == {k \in DOMAIN st.heap : st.heap[k].provider = item}
      fresh == New(st)
      obj == MarkerRef(Len(fresh.heap))
      r == Provide_init(fresh, obj, item)
  IN IF hit # {}
     THEN [ret |-> MarkerRef(CHOOSE k \in hit : TRUE), st |-> st, raised |-> FALSE]
     ELSE [ret |-> obj, st |-> r.st, raised |-> FALSE]

\* cls(item), i.e. type.__call__: allocate, run __init__, return the instance;
\* an exception from __init__ propagates and the instance is dropped
TypeCall(st, cls, item) ==
  LET fresh == New(st)
      obj == MarkerRef(Len(fresh.heap))
      r == Provide_init(fresh, obj, item)
  IN IF r.raised
     THEN [ret |-> None, st |-> st, raised |-> TRUE]
     ELSE [ret |-> obj, st |-> r.st, raised |-> FALSE]

\* mutant: the class is passed on instead of the item
ClassGetItemMeta_getitem_WrongArg(st, cls, item) == TypeCall(st, cls, cls)

\* ClassGetItemMeta.__getitem__(cls, item): return cls(item)
ClassGetItemMeta_getitem(st, cls, item) == TypeCall(st, cls, item)

\* mutant: the marker hands out what it wraps
Provide_call_ReturnProvider(st, slf) ==
  [ret |-> st.heap[slf.id].provider, st |-> st]

\* mutant: the marker resolves itself through the provider (a stub producing 42)
Provide_call_Resolve(st, slf) ==
  LET p == st.heap[slf.id].provider
  IN IF HasProduce(p)
     THEN [ret |-> [kind |-> "int", id |-> 42],
           st |-> [st EXCEPT !.produced[p] = @ + 1]]
     ELSE [ret |-> slf, st |-> st]

\* mutant: every invocation returns a new wrapper of the same provider
Provide_call_Rewrap(st, slf) ==
  LET r == TypeCall(st, ProvideClass, st.heap[slf.id].provider)
  IN [ret |-> r.ret, st |-> r.st]

\* mutant: the invocation marks the marker as consumed
Provide_call_Clear(st, slf) ==
  [ret |-> slf, st |-> [st EXCEPT !.heap[slf.id].provider = None]]

\* mutant: the most recently constructed marker is returned
Provide_call_Latest(st, slf) ==
  [ret |-> MarkerRef(Len(st.heap)), st |-> st]

\* Provide.__call__(self): return self
Provide_call(st, slf) == [ret |-> slf, st |-> st]

\* ---- the state machine ----
\* log is the history of constructions (argument, result, outcome) and last
\* the syntax of the most recent one: "getitem" for Provide[p], "call" for
\* Provide(p).

Init ==
  /\ heap = <<>>
  /\ produced = [p \in Providers |-> 0]
  /\ log = <<>>
  /\ last = "none"
  /\ pc = [s \in Sites |-> "idle"]
  /\ self = [s \in Sites |-> None]
  /\ ret = [s \in Sites |-> None]
  /\ again = [s \in Sites |-> FALSE]

Record(via, item, r) ==
  /\ heap' = r.st.heap
  /\ produced' = r.st.produced
  /\ log' = Append(log, [item |-> item, ret |-> r.ret, raised |-> r.raised])
  /\ last' = via
  /\ UNCHANGED <<pc, self, ret, again>>

\* m = Provide[item]
GetItem(item) ==
  /\ Len(log) < MaxMarkers
  /\ Record("getitem", item, ClassGetItemMeta_getitem(State, ProvideClass, item))

\* m = Provide(item)
Construct(item) ==
  /\ Len(log) < MaxMarkers
  /\ Record("call", item, TypeCall(State, ProvideClass, item))

\* a call site starts m(): the receiver is bound to self
CallEnter(s, i) ==
  /\ pc[s] = "idle"
  /\ i \in DOMAIN heap
  /\ self' = [self EXCEPT ![s] = MarkerRef(i)]
  /\ pc' = [pc EXCEPT ![s] = "call"]
  /\ UNCHANGED <<heap, produced, log, last, ret, again>>

\* the body of __call__ runs and its value reaches the call site
CallReturn(s) ==
  /\ pc[s] = "call"
  /\ LET r == Provide_call(State, self[s])
     IN /\ ret' = [ret EXCEPT ![s] = r.ret]
        /\ heap' = r.st.heap
        /\ produced' = r.st.produced
  /\ pc' = [pc EXCEPT ![s] = "ret"]
  /\ UNCHANGED <<log, last, self, again>>

\* the call site invokes again, any number of times: the same marker (m(); m()) or the result (m()())
CallNext(s) ==
  /\ pc[s] = "ret"
  /\ \E recv \in {self[s], ret[s]} :
       /\ recv.kind = "marker"
       /\ self' = [self EXCEPT ![s] = recv]
  /\ pc' = [pc EXCEPT ![s] = "call"]
  /\ again' = [again EXCEPT ![s] = TRUE]
  /\ UNCHANGED <<heap, produced, log, last, ret>>

\* the call site drops its references
Done(s) ==
  /\ pc[s] = "ret"
  /\ pc' = [pc EXCEPT ![s] = "idle"]
  /\ self' = [self EXCEPT ![s] = None]
  /\ ret' = [ret EXCEPT ![s] = None]
  /\ again' = [again EXCEPT ![s] = FALSE]
  /\ UNCHANGED <<heap, produced, log, last>>

Next ==
  \/ \E item \in Items : GetItem(item)
  \/ \E item \in Items : Construct(item)
  \/ \E s \in Sites : \E i \in 1..MaxMarkers : CallEnter(s, i)
  \/ \E s \in Sites : CallReturn(s)
  \/ \E s \in Sites : CallNext(s)
  \/ \E s \in Sites : Done(s)

Spec == Init /\ [][Next]_vars

\* ---- properties ----

Constructed == {i \in DOMAIN log : ~log[i].raised}
Wrapped(m) == heap[m.id].provider
IsMarker(v) == v.kind = "marker" /\ v.id \in DOMAIN heap

\* C1: Provide[p] yields a Provide instance whose provider attribute is
\* exactly the p that was passed in: the step that performs an indexed
\* construction ends with a marker that wraps its item.
C1_GetItemWrapsItem ==
  [][(Len(log') = Len(log) + 1 /\ last' = "getitem") =>
       LET e == log'[Len(log')]
       IN /\ e.ret.kind = "marker"
          /\ e.ret.id \in DOMAIN heap'
          /\ heap'[e.ret.id].provider = e.item]_vars

C1_Witness ==
  \E i \in DOMAIN log :
    /\ i = Len(log)
    /\ last = "getitem"
    /\ log[i].item \in Providers
    /\ IsMarker(log[i].ret)
    /\ Wrapped(log[i].ret) = log[i].item

\* C2: a completed invocation of a marker m has returned m itself, the same
\* instance, whatever m wraps and whatever happened before.
C2_CallReturnsSelf ==
  \A s \in Sites : pc[s] = "ret" => (ret[s] = self[s] /\ IsMarker(ret[s]))

C2_Witness ==
  \E s \in Sites :
    /\ pc[s] = "ret"
    /\ ret[s] = self[s]
    /\ Len(log) >= 2
    /\ Wrapped(self[s]) \in InvalidProviders

\* C3: in every reachable state each marker wraps the provider it was
\* constructed with.
C3_ProviderNeverChanges ==
  \A i \in Constructed :
    IsMarker(log[i].ret) => Wrapped(log[i].ret) = log[i].item

C3_Witness ==
  /\ Len(log) >= 2
  /\ log[1].item # log[2].item
  /\ IsMarker(log[1].ret)
  /\ Wrapped(log[1].ret) = log[1].item
  /\ \E s \in Sites : pc[s] = "ret" /\ self[s] = log[1].ret

\* C4: neither construction nor invocation calls a provider's produce
\* capability: every provider has been asked to produce zero times and no
\* invocation has returned a produced value.
C4_NeverProduces ==
  /\ \A p \in Providers : produced[p] = 0
  /\ \A s \in Sites : pc[s] = "ret" => ret[s].kind # "int"

C4_Witness ==
  \E s \in Sites :
    /\ pc[s] = "ret"
    /\ IsMarker(self[s])
    /\ Wrapped(self[s]) \in Providers
    /\ ret[s] = self[s]
    /\ produced[Wrapped(self[s])] = 0

\* C5: construction never fails: every construction, indexed or direct, from
\* any value (with or without a produce capability) ends with a marker and
\* not with an error.
C5_ConstructionNeverFails ==
  \A i \in DOMAIN log : ~log[i].raised /\ IsMarker(log[i].ret)

C5_Witness ==
  \E i, j \in DOMAIN log :
    /\ i < j /\ j = Len(log) /\ last = "call"
    /\ log[i].item \in InvalidProviders /\ log[j].item \in InvalidProviders
    /\ IsMarker(log[i].ret) /\ IsMarker(log[j].ret)

\* C6: markers constructed from two distinct providers are distinct objects
\* and wrap distinct references.
C6_DistinctProvidersDistinctMarkers ==
  \A i, j \in Constructed :
    log[i].item # log[j].item =>
      /\ log[i].ret # log[j].ret
      /\ IsMarker(log[i].ret) /\ IsMarker(log[j].ret)
      /\ Wrapped(log[i].ret) # Wrapped(log[j].ret)

C6_Witness ==
  \E i, j \in Constructed :
    /\ log[i].item \in Providers /\ log[j].item \in Providers
    /\ log[i].item # log[j].item
    /\ log[i].ret # log[j].ret

\* C7: invocation is idempotent: a second or later invocation in a chain
\* (m(); m() or m()()) returns what the first returned and leaves the state
\* as the first left it.
C7_InvocationIdempotent ==
  [][\A s \in Sites :
       (pc[s] = "call" /\ pc'[s] = "ret" /\ again[s]) =>
         /\ ret'[s] = ret[s]
         /\ ret'[s] = self[s]
         /\ heap' = heap
         /\ produced' = produced]_vars

C7_Witness ==
  \E s \in Sites : pc[s] = "ret" /\ again[s] /\ ret[s] = self[s]

\* C8: call sites that invoke one shared marker concurrently each get that
\* marker, and no step of any interleaving changes what the marker wraps
\* while an invocation of it is in flight or has just returned.
C8_ConcurrentInvocationSafe ==
  [][\A s \in Sites :
       (pc[s] \in {"call", "ret"} /\ IsMarker(self[s])) =>
         /\ self[s].id \in DOMAIN heap'
         /\ heap'[self[s].id].provider = heap[self[s].id].provider
         /\ (pc[s] = "call" /\ pc'[s] = "ret" => ret'[s] = self[s])]_vars

C8_Witness ==
  \E s, t \in Sites :
    /\ s # t
    /\ self[s] = self[t]
    /\ pc[s] = "call" /\ ~again[s]
    /\ pc[t] = "ret" /\ ret[t] = self[t]

\* C9: an invocation has no side effects: the step in which __call__ runs
\* leaves every marker's wrapped provider, the set of markers and the
\* providers as they were.
C9_InvocationNoSideEffects ==
  [][(\E s \in Sites : pc[s] = "call" /\ pc'[s] = "ret") =>
       /\ DOMAIN heap' = DOMAIN heap
       /\ \A k \in DOMAIN heap : heap'[k] = heap[k]
       /\ produced' = produced
       /\ log' = log]_vars

C9_Witness ==
  \E s \in Sites :
    /\ pc[s] = "ret"
    /\ Len(heap) >= 2
    /\ \E k \in DOMAIN heap : MarkerRef(k) # self[s]

====
